---- MODULE Spec2Model ----
(***************************************************************************)
(* A model of the structure-parsing and extraction core of binwalk-ng:     *)
(* the offset-safety guard, the per-format header validators and the       *)
(* internal extractors (Autel de-obfuscation, LZFSE decompression).        *)
(*                                                                         *)
(* Bytes are the naturals 0..255 and buffers are sequences of bytes.       *)
(* Fixed-width unsigned fields (u32, u64) are kept as their base-256       *)
(* digits, most significant first, so that 64-bit values keep their width. *)
(* A call of a pure function is one action: it draws the arguments from a  *)
(* bounded set and records them in call and the outcome in ret.  The       *)
(* extractors are modelled step by step (one action per loop iteration and *)
(* per sandbox write), every sandbox write free to succeed or fail.        *)
(***************************************************************************)
EXTENDS Integers, Sequences, FiniteSets, TLC

VARIABLES
    call,        \* the pure call made last: a record, fn names the function
    ret,         \* what that call returned
    xfn,         \* the extractor running ("none" before the first call)
    src,         \* the extractor's input (file_data and offset)
    root,        \* TRUE when an output directory was passed
    pc,          \* the extractor's position: idle, walk, decode, write, done, panicked
    file,        \* the output file beneath the root: None or Some(bytes)
    fileBefore,  \* file as it was when the running call started
    idx,         \* loop index: chunks decoded (autel), headers parsed (lzfse)
    rem,         \* lzfse: length of remaining_data
    dst_size,    \* lzfse: the accumulated uncompressed size
    nwrites,     \* sandbox writes attempted by the running call
    wfail,       \* TRUE when a sandbox write of the running call failed
    result,      \* the ExtractionResult being built / returned
    prev,        \* summary of the previous completed call on the same input
    ncalls,      \* calls started so far
    handed,      \* arcadyan: the arguments handed to lzma_decompress, None before
    logger,      \* the JsonLogger: None before new, else Some of its two fields
    jreq,        \* the data write_json was asked to write to the log file, in order
    jout,        \* the data that reached the log file (or stdout), in order
    jcalls       \* the calls made on the logger, in order: log (with the JSON
                 \* the results serialized to, None when they did not) and close

\* the extractors' variables, the logger's, and all but call and ret
evars == <<xfn, src, root, pc, file, fileBefore, idx, rem, dst_size, nwrites, wfail, result, prev, ncalls, handed>>
jvars == <<logger, jreq, jout, jcalls>>
xvars == <<evars, jvars>>
vars == <<call, ret, evars, jvars>>

\* Option<T>: None, or Some(v) holding v
None == <<>>
Some(v) == <<v>>

\* Result<T, StructureError>: the payload-free failure, a value, or a panic
Err == [kind |-> "err"]
Ok(v) == [kind |-> "ok", v |-> v]
Panic == [kind |-> "panic"]

----------------------------------------------------------------------------
(* Bytes and fixed-width unsigned integers *)

Min(a, b) == IF a < b THEN a ELSE b

Reverse(s) == [i \in 1..Len(s) |-> s[Len(s) + 1 - i]]

Zeros(n) == [i \in 1..n |-> 0]

\* the slice data[from..to) of Rust, 0-based bounds
Slice(data, from, to) == SubSeq(data, from + 1, to)

\* uN::from_le_bytes: the digits of the value, most significant first
from_le_bytes(bs) == Reverse(bs)

\* widening to 64 bits (as usize / as u64): leading zero digits
Pad8(d) == Zeros(8 - Len(d)) \o d

RECURSIVE DigitsLess(_, _, _)
DigitsLess(a, b, i) ==
    IF i > Len(a) THEN FALSE
    ELSE IF a[i] # b[i] THEN a[i] < b[i]
    ELSE DigitsLess(a, b, i + 1)

\* a < b, a <= b on unsigned values of any width up to 64 bits
WLt(a, b) == DigitsLess(Pad8(a), Pad8(b), 1)
WLe(a, b) == ~WLt(b, a)
WEq(a, b) == Pad8(a) = Pad8(b)

\* the 64-bit value of a small natural
RECURSIVE NatDigits(_, _)
NatDigits(n, w) == IF w = 0 THEN <<>> ELSE NatDigits(n \div 256, w - 1) \o <<n % 256>>
Wide(n) == NatDigits(n, 8)

\* Buffers of the model are shorter than LenCap bytes: a usize is used as an
\* index or compared with a length through its value capped at LenCap.
LenCap == 4096

RECURSIVE CappedFrom(_, _, _)
CappedFrom(d, i, acc) ==
    IF i > Len(d) THEN acc
    ELSE CappedFrom(d, i + 1, Min(acc * 256 + d[i], LenCap))
AsIndex(d) == CappedFrom(d, 1, 0)

----------------------------------------------------------------------------
(* common.rs: is_offset_safe *)

is_offset_safe_strict(available_data, next_offset, last_offset) ==
    IF last_offset # None /\ last_offset[1] > next_offset THEN FALSE
    ELSE IF next_offset >= available_data THEN FALSE
    ELSE TRUE

is_offset_safe(available_data, next_offset, last_offset) ==
    IF last_offset # None /\ last_offset[1] >= next_offset THEN FALSE
    ELSE IF next_offset >= available_data THEN FALSE
    ELSE TRUE

MaxAvail == 5

OffsetArgs == 0..(MaxAvail + 1)

\* A behaviour makes one pure call: the functions keep no state between calls.
CallIsOffsetSafe ==
    /\ call.fn = "none"
    /\ \E a \in 0..MaxAvail, n \in OffsetArgs, p \in {None} \cup {Some(x) : x \in OffsetArgs} :
        /\ call' = [fn |-> "is_offset_safe", available |-> a, next |-> n, last |-> p]
        /\ ret' = is_offset_safe(a, n, p)
        /\ UNCHANGED xvars

----------------------------------------------------------------------------
(* Bit operations on bytes *)

RECURSIVE BitAnd(_, _, _)
BitAnd(a, b, n) ==
    IF n = 0 THEN 0
    ELSE ((a % 2) * (b % 2)) + 2 * BitAnd(a \div 2, b \div 2, n - 1)

RECURSIVE BitXor(_, _, _)
BitXor(a, b, n) ==
    IF n = 0 THEN 0
    ELSE (((a % 2) + (b % 2)) % 2) + 2 * BitXor(a \div 2, b \div 2, n - 1)

\* a & b on 64-bit values, digit by digit
WAnd(a, b) == [i \in 1..8 |-> BitAnd(Pad8(a)[i], Pad8(b)[i], 8)]

\* the little-endian bytes of a value (the layout of zerocopy::U32<LE>, U64<LE>)
to_le_bytes(d) == Reverse(d)

W32(n) == NatDigits(n, 4)

\* data cut to, or filled with the byte 0xAA up to, len bytes
Fit(data, len) ==
    IF len <= Len(data) THEN SubSeq(data, 1, len)
    ELSE data \o [i \in 1..(len - Len(data)) |-> 170]

----------------------------------------------------------------------------
(* structures/lzma.rs *)

\* size_of::<LZMAHeaderBytes>(): u8 + U32 + U64 + u8, packed
LZMAHeaderBytesSize == 14
LZMA_STREAM_SIZE == <<255, 255, 255, 255, 255, 255, 255, 255>>
MIN_SUPPORTED_DECOMPRESSED_SIZE == Wide(256)
MAX_SUPPORTED_DECOMPRESSED_SIZE == <<0, 0, 0, 0, 255, 255, 255, 255>>

LZMAHeaderBytes(t) ==
    <<t.properties>> \o to_le_bytes(t.dictionary_size)
        \o to_le_bytes(t.decompressed_size) \o <<t.null_byte>>

lzma_size_sane_gt(decompressed_size) ==
    /\ WLt(MIN_SUPPORTED_DECOMPRESSED_SIZE, decompressed_size)
    /\ (\/ WEq(decompressed_size, LZMA_STREAM_SIZE)
        \/ WLe(decompressed_size, MAX_SUPPORTED_DECOMPRESSED_SIZE))

lzma_size_sane(decompressed_size) ==
    /\ WLe(MIN_SUPPORTED_DECOMPRESSED_SIZE, decompressed_size)
    /\ (\/ WEq(decompressed_size, LZMA_STREAM_SIZE)
        \/ WLe(decompressed_size, MAX_SUPPORTED_DECOMPRESSED_SIZE))

\* ref_from_prefix over a 13-byte layout, the null byte read at its last offset
parse_lzma_header_short(lzma_data) ==
    IF Len(lzma_data) < LZMAHeaderBytesSize - 1 THEN Err
    ELSE LET decompressed_size == from_le_bytes(Slice(lzma_data, 5, 13))
         IN  IF lzma_data[LZMAHeaderBytesSize - 1] = 0 /\ lzma_size_sane(decompressed_size)
             THEN Ok([properties |-> lzma_data[1],
                      dictionary_size |-> from_le_bytes(Slice(lzma_data, 1, 5)),
                      decompressed_size |-> decompressed_size])
             ELSE Err

parse_lzma_header(lzma_data) ==
    IF Len(lzma_data) < LZMAHeaderBytesSize THEN Err
    ELSE LET null_byte == lzma_data[14]
             decompressed_size == from_le_bytes(Slice(lzma_data, 5, 13))
         IN  IF null_byte = 0 /\ lzma_size_sane(decompressed_size)
             THEN Ok([properties |-> lzma_data[1],
                      dictionary_size |-> from_le_bytes(Slice(lzma_data, 1, 5)),
                      decompressed_size |-> decompressed_size])
             ELSE Err

\* every 64-bit value whose bytes are 0x00 or 0xFF, and the values next to the limits
LzmaSizes ==
    {d \in [1..8 -> {0, 255}] : TRUE}
        \cup {Wide(0), Wide(1), Wide(255), Wide(256), Wide(257),
              <<0, 0, 0, 0, 255, 255, 255, 254>>, <<0, 0, 0, 1, 0, 0, 0, 0>>,
              <<0, 0, 0, 1, 0, 0, 0, 1>>, <<255, 255, 255, 255, 255, 255, 255, 254>>,
              <<0, 1, 0, 0, 0, 0, 0, 0>>, <<128, 0, 0, 0, 0, 0, 0, 0>>}

LzmaTemplates ==
    [properties : {93}, dictionary_size : {W32(65536), <<255, 1, 2, 3>>},
     decompressed_size : LzmaSizes, null_byte : {0, 1, 255}]

LzmaLens == {0, 1, 12, 13, 14, 15}

CallParseLzmaHeader ==
    /\ call.fn = "none"
    /\ \E t \in LzmaTemplates, len \in LzmaLens :
        /\ call' = [fn |-> "parse_lzma_header", t |-> t, len |-> len,
                    data |-> Fit(LZMAHeaderBytes(t), len)]
        /\ ret' = parse_lzma_header(Fit(LZMAHeaderBytes(t), len))
        /\ UNCHANGED xvars

----------------------------------------------------------------------------
(* structures/linux.rs *)

\* size_of::<zImageHeader>(): eight U32<LE>
zImageHeaderSize == 32
NOP_LE == <<225, 160, 0, 0>>
NOP_BE == <<0, 0, 160, 225>>

RECURSIVE Flatten(_)
Flatten(ss) == IF ss = <<>> THEN <<>> ELSE Head(ss) \o Flatten(Tail(ss))

zImageHeader(noops) == Flatten([i \in 1..8 |-> to_le_bytes(noops[i])])

\* ref_from_bytes: the buffer must be exactly the size of the header
parse_linux_arm_zimage_header(zimage_data) ==
    IF Len(zimage_data) # zImageHeaderSize THEN Err
    ELSE LET noops == [i \in 1..8 |-> from_le_bytes(Slice(zimage_data, 4 * (i - 1), 4 * i))]
             first == noops[1]
         IN  IF \E i \in 1..8 : noops[i] # first THEN Err
             ELSE IF first = NOP_LE THEN Ok([endianness |-> "little"])
             ELSE IF first = NOP_BE THEN Ok([endianness |-> "big"])
             ELSE Err

ZWords == {NOP_LE, NOP_BE, <<225, 160, 0, 1>>}

\* eight copies of one word, at most one of them replaced by another word
ZTemplates ==
    {[i \in 1..8 |-> IF i = at THEN other ELSE base] :
        base \in ZWords, other \in ZWords, at \in 0..8}

ZLens == {0, 31, 32, 33, 36, 64}

CallParseZImageHeader ==
    /\ call.fn = "none"
    /\ \E t \in ZTemplates, len \in ZLens :
        /\ call' = [fn |-> "parse_linux_arm_zimage_header", t |-> t, len |-> len,
                    data |-> Fit(zImageHeader(t), len)]
        /\ ret' = parse_linux_arm_zimage_header(Fit(zImageHeader(t), len))
        /\ UNCHANGED xvars

\* size_of::<BootImageHeader>()
BootImageHeaderSize == 64
PE == <<80, 69>>
FLAGS_RESERVED_MASK == <<255, 255, 255, 255, 255, 255, 255, 240>>
FLAGS_ENDIAN_MASK == Wide(1)
BIG_ENDIAN == Wide(1)

BootImageHeader(t) ==
    t.code0 \o Zeros(4) \o Zeros(8) \o to_le_bytes(t.image_size) \o to_le_bytes(t.flags)
        \o to_le_bytes(t.reserved1) \o to_le_bytes(t.reserved2) \o to_le_bytes(t.reserved3)
        \o <<65, 82, 77, 100>> \o to_le_bytes(t.pe_offset)

parse_linux_arm64_boot_image_header(img_data) ==
    IF Len(img_data) # BootImageHeaderSize THEN Err
    ELSE LET image_size == from_le_bytes(Slice(img_data, 16, 24))
             flags == from_le_bytes(Slice(img_data, 24, 32))
             reserved1 == from_le_bytes(Slice(img_data, 32, 40))
             reserved2 == from_le_bytes(Slice(img_data, 40, 48))
             reserved3 == from_le_bytes(Slice(img_data, 48, 56))
             pe_offset == from_le_bytes(Slice(img_data, 60, 64))
             pe_start == AsIndex(pe_offset)
             pe_end == pe_start + Len(PE)
         IN  IF ~(reserved1 = Wide(0) /\ reserved2 = Wide(0) /\ reserved3 = Wide(0)) THEN Err
             ELSE IF pe_end > Len(img_data) THEN Err
             ELSE IF Slice(img_data, pe_start, pe_end) # PE THEN Err
             ELSE IF WAnd(flags, FLAGS_RESERVED_MASK) = Wide(0)
                  THEN Ok([endianness |-> IF WAnd(flags, FLAGS_ENDIAN_MASK) = BIG_ENDIAN
                                          THEN "big" ELSE "little",
                           image_size |-> image_size,
                           header_size |-> BootImageHeaderSize])
             ELSE Err

Arm64Templates ==
    {[code0 |-> c, image_size |-> sz, flags |-> f, pe_offset |-> pe,
      reserved1 |-> IF r = 1 THEN <<1, 0, 0, 0, 0, 0, 0, 0>> ELSE Wide(0),
      reserved2 |-> IF r = 2 THEN Wide(1) ELSE Wide(0),
      reserved3 |-> IF r = 3 THEN Wide(256) ELSE Wide(0)] :
        c \in {<<80, 69, 0, 0>>, <<77, 90, 0, 0>>},
        sz \in {Wide(65536), <<0, 0, 1, 0, 0, 0, 0, 0>>},
        f \in {Wide(0), Wide(1), Wide(14), Wide(15), Wide(16), Wide(17),
               <<128, 0, 0, 0, 0, 0, 0, 0>>, Wide(257)},
        pe \in {W32(0), W32(1), W32(62), W32(63), W32(64), W32(65), W32(256),
                <<128, 0, 0, 0>>},
        r \in 0..3}

\* the bytes that follow the header in the longer buffers: "PE" at offset 64
Arm64Tail == <<80, 69, 80>>

Arm64Lens == {0, 63, 64, 65, 66, 67}

CallParseArm64Header ==
    /\ call.fn = "none"
    /\ \E t \in Arm64Templates, len \in Arm64Lens :
        /\ call' = [fn |-> "parse_linux_arm64_boot_image_header", t |-> t, len |-> len,
                    data |-> Fit(BootImageHeader(t) \o Arm64Tail, len)]
        /\ ret' = parse_linux_arm64_boot_image_header(Fit(BootImageHeader(t) \o Arm64Tail, len))
        /\ UNCHANGED xvars

----------------------------------------------------------------------------
(* structures/bmp.rs *)

\* size_of::<RawHeader>(): U16 + U32 + U16 + U16 + U32
RawHeaderSize == 14

RawHeader(t) ==
    <<66, 77>> \o to_le_bytes(t.bf_size) \o Zeros(4) \o to_le_bytes(t.bf_off_bits)

\* the size and the offset required to be below the length of the buffer
parse_bmp_file_header_below(bmp_data) ==
    IF Len(bmp_data) < RawHeaderSize THEN Err
    ELSE LET bmp_data_size == Wide(Len(bmp_data))
             bf_size == Pad8(from_le_bytes(Slice(bmp_data, 2, 6)))
             bf_off_bits == Pad8(from_le_bytes(Slice(bmp_data, 10, 14)))
         IN  IF WLe(bmp_data_size, bf_size) THEN Err
             ELSE IF bf_size = Wide(0) THEN Err
             ELSE IF bf_off_bits = Wide(0) THEN Err
             ELSE IF WLe(bmp_data_size, bf_off_bits) THEN Err
             ELSE Ok([size |-> bf_size, bitmap_bits_offset |-> bf_off_bits])

parse_bmp_file_header(bmp_data) ==
    IF Len(bmp_data) < RawHeaderSize THEN Err
    ELSE LET bmp_data_size == Wide(Len(bmp_data))
             bf_size == Pad8(from_le_bytes(Slice(bmp_data, 2, 6)))
             bf_off_bits == Pad8(from_le_bytes(Slice(bmp_data, 10, 14)))
         IN  IF WLt(bmp_data_size, bf_size) THEN Err
             ELSE IF bf_size = Wide(0) THEN Err
             ELSE IF bf_off_bits = Wide(0) THEN Err
             ELSE IF WLt(bmp_data_size, bf_off_bits) THEN Err
             ELSE Ok([size |-> bf_size, bitmap_bits_offset |-> bf_off_bits])

BmpVals == {W32(0), W32(1), W32(14), W32(20), W32(21), <<1, 0, 0, 0>>, <<255, 255, 255, 255>>}

BmpTemplates == [bf_size : BmpVals, bf_off_bits : BmpVals]

BmpLens == {0, 13, 14, 20, 21}

CallParseBmpFileHeader ==
    /\ call.fn = "none"
    /\ \E t \in BmpTemplates, len \in BmpLens :
        /\ call' = [fn |-> "parse_bmp_file_header", t |-> t, len |-> len,
                    data |-> Fit(RawHeader(t), len)]
        /\ ret' = parse_bmp_file_header(Fit(RawHeader(t), len))
        /\ UNCHANGED xvars

valid_header_sizes == {W32(12), W32(40), W32(108), W32(124)}

\* bmp_data[..4] panics when fewer than four bytes are there
get_dib_header_size(bmp_data) ==
    IF Len(bmp_data) < 4 THEN Panic
    ELSE LET header_size == from_le_bytes(Slice(bmp_data, 0, 4))
         IN  IF header_size \notin valid_header_sizes THEN Err
             ELSE Ok(Pad8(header_size))

DibVals == valid_header_sizes \cup {W32(0), W32(13), W32(268), <<12, 0, 0, 0>>}

DibLens == {0, 1, 3, 4, 5, 40}

CallGetDibHeaderSize ==
    /\ call.fn = "none"
    /\ \E v \in DibVals, len \in DibLens :
        /\ call' = [fn |-> "get_dib_header_size", t |-> v, len |-> len,
                    data |-> Fit(to_le_bytes(v), len)]
        /\ ret' = get_dib_header_size(Fit(to_le_bytes(v), len))
        /\ UNCHANGED xvars

----------------------------------------------------------------------------
(* common.rs: get_cstring; structures/autel.rs *)

RECURSIVE get_cstring_bytes(_)
get_cstring_bytes(raw_data) ==
    IF raw_data = <<>> \/ Head(raw_data) = 0 THEN <<>>
    ELSE <<Head(raw_data)>> \o get_cstring_bytes(Tail(raw_data))

\* String::from_utf8 succeeds on ASCII; the only other byte the model's inputs
\* hold is 0xFF, which no UTF-8 string contains
from_utf8_ok(bytes) == \A i \in 1..Len(bytes) : bytes[i] < 128

\* the string cut to its first 15 bytes
get_cstring_first_15(raw_data) ==
    LET raw_string == get_cstring_bytes(SubSeq(raw_data, 1, Min(15, Len(raw_data))))
    IN  IF from_utf8_ok(raw_string) THEN raw_string ELSE <<>>

get_cstring(raw_data) ==
    LET raw_string == get_cstring_bytes(raw_data)
    IN  IF from_utf8_ok(raw_string) THEN raw_string ELSE <<>>

\* size_of::<AutelEccHeaderBytes>(): U64 + U32 + U32 + [u8; 16]
AutelEccHeaderSize == 32
EXPECTED_HEADER_SIZE == W32(32)
\* "Copyright Autel"
EXPECTED_COPYRIGHT_STRING ==
    <<67, 111, 112, 121, 114, 105, 103, 104, 116, 32, 65, 117, 116, 101, 108>>

AutelEccHeaderBytes(t) ==
    t.magic \o to_le_bytes(t.data_size) \o to_le_bytes(t.header_size) \o t.copyright

parse_autel_header(autel_data) ==
    IF Len(autel_data) < AutelEccHeaderSize THEN Err
    ELSE LET data_size == from_le_bytes(Slice(autel_data, 8, 12))
             header_size == from_le_bytes(Slice(autel_data, 12, 16))
             copyright == Slice(autel_data, 16, 32)
         IN  IF header_size = EXPECTED_HEADER_SIZE
                /\ get_cstring(copyright) = EXPECTED_COPYRIGHT_STRING
             THEN Ok([data_size |-> Pad8(data_size), header_size |-> Pad8(header_size)])
             ELSE Err

AutelMagics == {<<69, 67, 67, 48, 49, 48, 49, 0>>, Zeros(8)}

AutelCopyrights ==
    {EXPECTED_COPYRIGHT_STRING \o <<0>>,
     EXPECTED_COPYRIGHT_STRING \o <<33>>,
     SubSeq(EXPECTED_COPYRIGHT_STRING, 1, 9) \o <<0>> \o SubSeq(EXPECTED_COPYRIGHT_STRING, 11, 15) \o <<0>>,
     SubSeq(EXPECTED_COPYRIGHT_STRING, 1, 14) \o <<0, 108>>,
     <<99>> \o SubSeq(EXPECTED_COPYRIGHT_STRING, 2, 15) \o <<0>>,
     <<255>> \o SubSeq(EXPECTED_COPYRIGHT_STRING, 2, 15) \o <<0>>,
     Zeros(16)}

AutelHeaderTemplates ==
    [magic : AutelMagics,
     data_size : {W32(0), W32(1), W32(513), <<255, 255, 255, 255>>},
     header_size : {W32(32), W32(33), W32(0), <<1, 0, 0, 32>>},
     copyright : AutelCopyrights]

AutelHeaderLens == {0, 16, 31, 32, 33, 40}

CallParseAutelHeader ==
    /\ call.fn = "none"
    /\ \E t \in AutelHeaderTemplates, len \in AutelHeaderLens :
        /\ call' = [fn |-> "parse_autel_header", t |-> t, len |-> len,
                    data |-> Fit(AutelEccHeaderBytes(t), len)]
        /\ ret' = parse_autel_header(Fit(AutelEccHeaderBytes(t), len))
        /\ UNCHANGED xvars

----------------------------------------------------------------------------
(* structures/android_bootimg.rs *)

\* size_of::<AndroidBootImageHeaderBytes>(): U64 + four U32
AndroidBootImageHeaderSize == 24

AndroidBootImageHeaderBytes(t) ==
    <<65, 78, 68, 82, 79, 73, 68, 33>> \o to_le_bytes(t.kernel_size)
        \o to_le_bytes(t.kernel_load_addr) \o to_le_bytes(t.ramdisk_size)
        \o to_le_bytes(t.ramdisk_load_addr)

parse_android_bootimg_header(bootimg_data) ==
    IF Len(bootimg_data) < AndroidBootImageHeaderSize THEN Err
    ELSE Ok([kernel_size |-> from_le_bytes(Slice(bootimg_data, 8, 12)),
             kernel_load_address |-> from_le_bytes(Slice(bootimg_data, 12, 16)),
             ramdisk_size |-> from_le_bytes(Slice(bootimg_data, 16, 20)),
             ramdisk_load_address |-> from_le_bytes(Slice(bootimg_data, 20, 24))])

AndroidVals == {W32(0), <<1, 2, 3, 4>>, <<255, 255, 255, 255>>}

AndroidTemplates ==
    [kernel_size : AndroidVals, kernel_load_addr : AndroidVals,
     ramdisk_size : AndroidVals, ramdisk_load_addr : AndroidVals]

AndroidLens == {0, 23, 24, 30}

CallParseAndroidBootimgHeader ==
    /\ call.fn = "none"
    /\ \E t \in AndroidTemplates, len \in AndroidLens :
        /\ call' = [fn |-> "parse_android_bootimg_header", t |-> t, len |-> len,
                    data |-> Fit(AndroidBootImageHeaderBytes(t), len)]
        /\ ret' = parse_android_bootimg_header(Fit(AndroidBootImageHeaderBytes(t), len))
        /\ UNCHANGED xvars

----------------------------------------------------------------------------
(* extractors/common.rs (not among the sources): ExtractionResult and the
   sandboxed writer, as the specification describes them *)

\* ExtractionResult::default()
DefaultResult == [success |-> FALSE, size |-> None]

\* Chroot::append_to_file, when it succeeds: creates the file or appends to it
append_to_file(f, bytes) == Some(IF f = None THEN bytes ELSE f[1] \o bytes)

\* Chroot::create_file, when it succeeds: writes the file afresh
create_file(f, bytes) == Some(bytes)

\* calls of one extractor on one input in a behaviour
MaxCalls == 2

----------------------------------------------------------------------------
(* extractors/autel.rs *)

BLOCK_SIZE == 256

ADDS ==
    <<
       54, 96, 59, 191, 45, 96, 27, 152, 44, 118, 115, 210, 13, 27, 20, 139,
       28, 17, 19, 224, 20, 145, 14, 12, 18, 17, 29, 246, 115, 28, 155, 12,
       31, 20, 27, 142, 96, 18, 145, 23, 13, 13, 23, 19, 27, 83, 146, 145,
       18, 96, 13, 159, 96, 20, 20, 27, 9, 96, 13, 159, 96, 142, 31, 155,
       7, 224, 20, 27, 28, 17, 19, 96, 76, 208, 80, 78, 96, 27, 24, 140,
       96, 17, 12, 224, 14, 17, 151, 14, 16, 96, 13, 155, 20, 29, 23, 24,
       27, 10, 96, 140, 14, 17, 16, 144, 11, 13, 96, 17, 12, 96, 28, 27,
       27, 18, 96, 31, 96, 13, 23, 224, 27, 142, 27, 24, 12, 96, 84, 14,
       27, 10, 155, 9, 17, 56, 96, 82, 13, 27, 20, 139, 28, 145, 19, 118,
       115, 20, 145, 14, 12, 146, 17, 29, 96, 28, 27, 140, 31, 148, 27, 14,
       83, 18, 17, 23, 13, 13, 151, 147, 27, 96, 19, 159, 14, 25, 17, 142,
       16, 27, 14, 224, 17, 12, 224, 28, 27, 13, 11, 96, 27, 30, 224, 146,
       31, 29, 96, 140, 31, 24, 140, 96, 27, 29, 31, 154, 14, 27, 140, 18,
       23, 96, 21, 14, 17, 9, 12, 155, 18, 96, 27, 148, 29, 23, 24, 155,
       10, 96, 28, 14, 31, 28, 18, 31, 12, 13, 96, 31, 96, 13, 27, 18,
       23, 26, 27, 156, 96, 79, 211, 76, 77, 75, 206, 182, 96, 59, 191, 173
    >>

XORS ==
    <<
       147, 129, 193, 0, 130, 144, 129, 0, 180, 141, 129, 0, 164, 133, 192, 0,
       166, 133, 193, 0, 161, 0, 193, 132, 161, 140, 192, 0, 178, 132, 0, 132,
       165, 136, 193, 0, 164, 133, 0, 132, 165, 148, 193, 132, 178, 137, 0, 0,
       166, 148, 193, 0, 166, 129, 193, 132, 160, 148, 192, 0, 180, 0, 193, 0,
       166, 0, 192, 132, 160, 149, 193, 132, 164, 0, 192, 132, 160, 144, 193, 0,
       178, 141, 193, 0, 161, 141, 0, 132, 165, 137, 193, 0, 161, 141, 192, 132,
       178, 133, 192, 0, 180, 133, 192, 0, 163, 141, 192, 132, 178, 141, 192, 132,
       130, 141, 193, 132, 181, 140, 193, 0, 166, 0, 192, 132, 183, 133, 192, 132,
       178, 140, 0, 132, 160, 133, 192, 132, 160, 137, 193, 0, 161, 0, 192, 132,
       165, 132, 0, 132, 167, 0, 193, 132, 176, 144, 193, 0, 180, 0, 192, 132,
       160, 137, 193, 132, 165, 145, 0, 0, 178, 137, 193, 0, 160, 148, 193, 0,
       180, 136, 193, 0, 178, 144, 0, 132, 160, 141, 193, 132, 165, 140, 0, 0,
       165, 129, 192, 0, 161, 145, 0, 132, 165, 140, 192, 0, 161, 145, 0, 132,
       167, 140, 129, 132, 165, 137, 193, 0, 161, 141, 192, 0, 178, 133, 192, 0,
       180, 133, 192, 132, 130, 129, 193, 132, 180, 144, 193, 132, 160, 141, 193, 132,
       181, 140, 193, 0, 166, 141, 0, 132, 160, 133, 0, 0, 129, 133, 0, 0
    >>

decode_autel_block_xor_first(block_data) ==
    [i \in 1..Len(block_data) |-> (BitXor(block_data[i], XORS[i], 8) + ADDS[i]) % 256]

\* i is 1-based here: ADDS[i], XORS[i] are the tables' entries i - 1
decode_autel_block(block_data) ==
    [i \in 1..Len(block_data) |-> BitXor((block_data[i] + ADDS[i]) % 256, XORS[i], 8)]

\* the data region sliced by index, without the checked get
autel_prepare_unchecked(file_data, offset) ==
    IF offset > Len(file_data) THEN [kind |-> "panic"]
    ELSE LET data == Slice(file_data, offset, Len(file_data))
             autel_header == parse_autel_header(data)
         IN  IF autel_header.kind # "ok" THEN [kind |-> "return"]
             ELSE LET data_start == AsIndex(autel_header.v.header_size)
                      data_size == AsIndex(autel_header.v.data_size)
                  IN  IF data_start > Len(data) THEN [kind |-> "panic"]
                      ELSE IF data_size > Len(data) - data_start THEN [kind |-> "panic"]
                      ELSE [kind |-> "loop", data_size |-> data_size,
                            autel_data |-> Slice(data, data_start, data_start + data_size)]

\* autel_deobfuscate up to its loop: the slice and header checks
autel_prepare(file_data, offset) ==
    IF offset > Len(file_data) THEN [kind |-> "panic"]
    ELSE LET data == Slice(file_data, offset, Len(file_data))
             autel_header == parse_autel_header(data)
         IN  IF autel_header.kind # "ok" THEN [kind |-> "return"]
             ELSE LET data_start == AsIndex(autel_header.v.header_size)
                      data_size == AsIndex(autel_header.v.data_size)
                  IN  IF data_start > Len(data) THEN [kind |-> "return"]
                      ELSE IF data_size > Len(data) - data_start THEN [kind |-> "return"]
                      ELSE [kind |-> "loop", data_size |-> data_size,
                            autel_data |-> Slice(data, data_start, data_start + data_size)]

\* autel_data.chunks(BLOCK_SIZE): how many chunks, and chunk k (from 0)
NumChunks(autel_data) == (Len(autel_data) + BLOCK_SIZE - 1) \div BLOCK_SIZE
Chunk(autel_data, k) ==
    Slice(autel_data, k * BLOCK_SIZE, Min((k + 1) * BLOCK_SIZE, Len(autel_data)))

\* payload bytes that differ from one 256-byte block to the next
Ramp(j) == (7 * j + 3 + 101 * (j \div 256)) % 256
Payload(kind, n) == [i \in 1..n |-> IF kind = "zeros" THEN 0 ELSE Ramp(i - 1)]

AutelDataSizes == {0, 1, 256, 257, 513}

\* a prefix of offset bytes, the header, and a payload one byte short of
\* data_size, of data_size bytes, or three bytes longer
AutelSources ==
    {[offset |-> off, data_size |-> n, payload |-> kind,
      file_data |-> [i \in 1..off |-> 17]
                    \o AutelEccHeaderBytes([magic |-> Zeros(8), data_size |-> W32(n),
                                            header_size |-> W32(hs), copyright |-> cr])
                    \o Payload(kind, IF n + delta < 0 THEN 0 ELSE n + delta)] :
        off \in {0, 2}, n \in AutelDataSizes, kind \in {"zeros", "ramp"},
        hs \in {32, 33},
        cr \in {EXPECTED_COPYRIGHT_STRING \o <<0>>, EXPECTED_COPYRIGHT_STRING \o <<33>>},
        delta \in {-1, 0, 3}}
    \cup {[offset |-> off, data_size |-> 0, payload |-> "zeros",
            file_data |-> [i \in 1..off |-> 17] \o Zeros(n)] :
            off \in {0, 2}, n \in {0, 31}}

\* the call: a first call on any input, or one more call on the same input
AutelCall ==
    /\ \/ pc = "idle"
       \/ pc = "done" /\ xfn = "autel_deobfuscate" /\ ncalls < MaxCalls
    /\ \E input \in (IF pc = "idle" THEN AutelSources ELSE {src}), r \in BOOLEAN :
        LET p == autel_prepare(input.file_data, input.offset)
        IN  /\ xfn' = "autel_deobfuscate"
            /\ src' = input
            /\ root' = r
            /\ prev' = IF pc = "idle" THEN None
                       ELSE Some([root |-> root, result |-> result, wfail |-> wfail])
            /\ ncalls' = ncalls + 1
            /\ fileBefore' = file
            /\ nwrites' = 0
            /\ wfail' = FALSE
            /\ idx' = 0
            /\ result' = DefaultResult
            /\ pc' = CASE p.kind = "panic" -> "panicked"
                       [] p.kind = "return" -> "done"
                       [] OTHER -> "decode"
            /\ UNCHANGED <<file, rem, dst_size, call, ret, handed, jvars>>

AutelData == autel_prepare(src.file_data, src.offset).autel_data

\* the loop appending although no output directory was passed
AutelDecodeProbeWrites ==
    /\ pc = "decode" /\ xfn = "autel_deobfuscate" /\ ~root
    /\ idx < NumChunks(AutelData)
    /\ file' = append_to_file(file, decode_autel_block(Chunk(AutelData, idx)))
    /\ nwrites' = nwrites + 1
    /\ idx' = idx + 1
    /\ UNCHANGED <<xfn, src, root, pc, fileBefore, rem, dst_size, wfail,
                   result, prev, ncalls, call, ret, handed, jvars>>

\* one iteration of the loop without an output directory
AutelDecodeProbe ==
    /\ pc = "decode" /\ xfn = "autel_deobfuscate" /\ ~root
    /\ idx < NumChunks(AutelData)
    /\ idx' = idx + 1
    /\ UNCHANGED <<xfn, src, root, pc, file, fileBefore, rem, dst_size, nwrites, wfail,
                   result, prev, ncalls, call, ret, handed, jvars>>

\* one iteration with an output directory, the append succeeding
AutelAppendOk ==
    /\ pc = "decode" /\ xfn = "autel_deobfuscate" /\ root
    /\ idx < NumChunks(AutelData)
    /\ file' = append_to_file(file, decode_autel_block(Chunk(AutelData, idx)))
    /\ nwrites' = nwrites + 1
    /\ idx' = idx + 1
    /\ UNCHANGED <<xfn, src, root, pc, fileBefore, rem, dst_size, wfail,
                   result, prev, ncalls, call, ret, handed, jvars>>

\* one iteration with an output directory, the append failing: return result
AutelAppendFail ==
    /\ pc = "decode" /\ xfn = "autel_deobfuscate" /\ root
    /\ idx < NumChunks(AutelData)
    /\ nwrites' = nwrites + 1
    /\ wfail' = TRUE
    /\ pc' = "done"
    /\ UNCHANGED <<xfn, src, root, file, fileBefore, idx, rem, dst_size,
                   result, prev, ncalls, call, ret, handed, jvars>>

\* the loop is over: report the data size
AutelFinish ==
    /\ pc = "decode" /\ xfn = "autel_deobfuscate"
    /\ idx = NumChunks(AutelData)
    /\ result' = [success |-> TRUE, size |-> Some(Len(AutelData))]
    /\ pc' = "done"
    /\ UNCHANGED <<xfn, src, root, file, fileBefore, idx, rem, dst_size, nwrites, wfail,
                   prev, ncalls, call, ret, handed, jvars>>

----------------------------------------------------------------------------
(* structures/lzfse.rs (not among the sources) and extractors/lzfse.rs.

   The LZFSE source is kept as its length and the chain of block headers a
   walk from its start meets: chain[i] is what the bytes at the i-th block
   boundary parse to, a header record or NoHeader (bytes that are no header). *)

LzfseHeader(hs, ds, us, eof) ==
    [valid |-> TRUE, header_size |-> hs, data_size |-> ds, uncompressed_size |-> us,
     eof |-> eof]
NoHeader == [valid |-> FALSE]

\* parse_lzfse_block_header on the remaining data of length remaining, at the
\* i-th block boundary: a header whose own bytes are all there, or the failure
parse_lzfse_block_header(chain, i, remaining) ==
    IF i > Len(chain) THEN Err
    ELSE IF ~chain[i].valid THEN Err
    ELSE IF remaining < chain[i].header_size THEN Err
    ELSE Ok(chain[i])

\* lzfse::decode_buffer (the lzfse crate) into a buffer of capacity bytes, on a
\* source that holds a stream decoding to Some(n) bytes, or None when it does
\* not decode: the number of bytes produced, at most the capacity
decode_buffer(stream, capacity) ==
    IF stream = None THEN Err ELSE Ok(Min(stream[1], capacity))

\* headers that continue a walk, and what may end a chain
LzfseBlocks == {LzfseHeader(2, 3, 4, FALSE), LzfseHeader(2, 0, 1, FALSE)}
LzfseEnds ==
    {LzfseHeader(2, 3, 4, TRUE), LzfseHeader(2, 0, 1, TRUE), LzfseHeader(0, 0, 0, TRUE),
     LzfseHeader(0, 0, 0, FALSE), NoHeader}

MaxBlocks == 3

\* what lies in the source behind the block that ends a chain: nothing, or one
\* more block
LzfseAfter == {<<>>, <<LzfseHeader(2, 3, 4, FALSE)>>}

LzfseChains ==
    UNION {[1..n -> LzfseBlocks] : n \in 0..MaxBlocks}
    \cup UNION {{c \o <<e>> \o t : c \in [1..n -> LzfseBlocks], e \in LzfseEnds,
                                  t \in LzfseAfter} : n \in 0..(MaxBlocks - 1)}

RECURSIVE ChainSize(_, _)
ChainSize(chain, n) ==
    IF n = 0 THEN 0
    ELSE ChainSize(chain, n - 1)
         + (IF ~chain[n].valid THEN 0 ELSE chain[n].header_size + chain[n].data_size)

RECURSIVE ChainUncompressed(_, _)
ChainUncompressed(chain, n) ==
    IF n = 0 THEN 0
    ELSE ChainUncompressed(chain, n - 1)
         + (IF ~chain[n].valid THEN 0 ELSE chain[n].uncompressed_size)

LzfseStreams == {None} \cup {Some(n) : n \in {0, 1, 4, 5, 9}}

\* the file: offset bytes, then the chain's blocks cut one byte short, whole,
\* or followed by two more bytes
LzfseSources ==
    {[offset |-> off, chain |-> c, stream |-> st,
      file_len |-> IF off + ChainSize(c, Len(c)) + delta < 0 THEN 0
                   ELSE off + ChainSize(c, Len(c)) + delta] :
        off \in {0, 1}, c \in LzfseChains, st \in LzfseStreams, delta \in {-1, 0, 2}}

\* data.len(), data = &file_data[offset..]
DataLen == src.file_len - src.offset

LzfseCall ==
    /\ \/ pc = "idle"
       \/ pc = "done" /\ xfn = "lzfse_decompress" /\ ncalls < MaxCalls
    /\ \E input \in (IF pc = "idle" THEN LzfseSources ELSE {src}), r \in BOOLEAN :
        /\ xfn' = "lzfse_decompress"
        /\ src' = input
        /\ root' = r
        /\ prev' = IF pc = "idle" THEN None
                   ELSE Some([root |-> root, result |-> result, wfail |-> wfail])
        /\ ncalls' = ncalls + 1
        /\ fileBefore' = file
        /\ nwrites' = 0
        /\ wfail' = FALSE
        /\ idx' = 0
        /\ dst_size' = 0
        /\ result' = DefaultResult
        /\ IF input.offset > input.file_len
           THEN pc' = "panicked" /\ rem' = 0
           ELSE pc' = "walk" /\ rem' = input.file_len - input.offset
        /\ UNCHANGED <<file, call, ret, handed, jvars>>

\* the walk without its break: it goes on behind an end-of-stream block
LzfseWalkPastEof ==
    /\ pc = "walk" /\ xfn = "lzfse_decompress"
    /\ LET parsed == parse_lzfse_block_header(src.chain, idx + 1, rem)
           lzfse_block == parsed.v
           block_size == lzfse_block.header_size + lzfse_block.data_size
       IN  IF parsed.kind # "ok"
           THEN pc' = "decode" /\ UNCHANGED <<idx, rem, dst_size>>
           ELSE /\ dst_size' = dst_size + lzfse_block.uncompressed_size
                /\ idx' = idx + 1
                /\ IF block_size > rem
                   THEN pc' = "panicked" /\ rem' = rem
                   ELSE /\ rem' = rem - block_size
                        /\ pc' = IF block_size > 0 THEN "walk" ELSE "panicked"
    /\ UNCHANGED <<xfn, src, root, file, fileBefore, nwrites, wfail, result, prev, ncalls,
                   call, ret, handed, jvars>>

\* one evaluation of the while condition and, when a header parses, the body
LzfseWalk ==
    /\ pc = "walk" /\ xfn = "lzfse_decompress"
    /\ LET parsed == parse_lzfse_block_header(src.chain, idx + 1, rem)
           lzfse_block == parsed.v
           block_size == lzfse_block.header_size + lzfse_block.data_size
       IN  IF parsed.kind # "ok"
           THEN pc' = "decode" /\ UNCHANGED <<idx, rem, dst_size>>
           ELSE /\ dst_size' = dst_size + lzfse_block.uncompressed_size
                /\ idx' = idx + 1
                /\ IF block_size > rem
                   THEN pc' = "panicked" /\ rem' = rem
                   ELSE /\ rem' = rem - block_size
                        /\ pc' = IF lzfse_block.eof THEN "decode"
                                 ELSE IF block_size > 0 THEN "walk"
                                 ELSE "panicked"
    /\ UNCHANGED <<xfn, src, root, file, fileBefore, nwrites, wfail, result, prev, ncalls,
                   call, ret, handed, jvars>>

\* src_size, once the walk is over
src_size == DataLen - rem

\* the decode and the comparison of its length with dst_size
LzfseDecode ==
    /\ pc = "decode" /\ xfn = "lzfse_decompress"
    /\ LET decoded == decode_buffer(src.stream, dst_size + 1)
       IN  IF decoded.kind = "ok" /\ decoded.v = dst_size
           THEN /\ result' = [success |-> TRUE, size |-> Some(dst_size)]
                /\ pc' = IF root THEN "write" ELSE "done"
           ELSE /\ result' = result
                /\ pc' = "done"
    /\ UNCHANGED <<xfn, src, root, file, fileBefore, idx, rem, dst_size, nwrites, wfail,
                   prev, ncalls, call, ret, handed, jvars>>

\* chroot.create_file succeeds; the bytes written are kept as dst_size zeros
LzfseCreateOk ==
    /\ pc = "write" /\ xfn = "lzfse_decompress"
    /\ file' = create_file(file, Zeros(dst_size))
    /\ nwrites' = nwrites + 1
    /\ result' = [result EXCEPT !.success = TRUE]
    /\ pc' = "done"
    /\ UNCHANGED <<xfn, src, root, fileBefore, idx, rem, dst_size, wfail, prev, ncalls,
                   call, ret, handed, jvars>>

\* chroot.create_file fails
LzfseCreateFail ==
    /\ pc = "write" /\ xfn = "lzfse_decompress"
    /\ nwrites' = nwrites + 1
    /\ wfail' = TRUE
    /\ result' = [result EXCEPT !.success = FALSE]
    /\ pc' = "done"
    /\ UNCHANGED <<xfn, src, root, file, fileBefore, idx, rem, dst_size, prev, ncalls,
                   call, ret, handed, jvars>>

----------------------------------------------------------------------------
(* structures/common.rs: the generic structure parser.

   A structure is a sequence of <<name, ctype>> pairs; the mapping returned
   is a function from the names inserted to usize values. *)

type_to_size_no_u24(ctype) ==
    CASE ctype = "u8" -> Some(1)
      [] ctype = "u16" -> Some(2)
      [] ctype = "u32" -> Some(4)
      [] ctype = "u64" -> Some(8)
      [] OTHER -> None

type_to_size(ctype) ==
    CASE ctype = "u8" -> Some(1)
      [] ctype = "u16" -> Some(2)
      [] ctype = "u24" -> Some(3)
      [] ctype = "u32" -> Some(4)
      [] ctype = "u64" -> Some(8)
      [] OTHER -> None

\* uN::from_be_bytes: the digits of the value, most significant first
from_be_bytes(bs) == bs

\* a << 16 | b << 8 | c on usize
shift_or_24(a, b, c) == <<a, b, c>>

\* the match on csize with the u24 arm reading big-endian whatever the literal
decode_value_u24_be(raw_bytes, csize, endianness) ==
    CASE csize = 1 -> Some(<<raw_bytes[1]>>)
      [] csize \in {2, 4, 8} ->
            Some(IF endianness = "big" THEN from_be_bytes(raw_bytes)
                 ELSE from_le_bytes(raw_bytes))
      [] csize = 3 -> Some(shift_or_24(raw_bytes[1], raw_bytes[2], raw_bytes[3]))
      [] OTHER -> None

\* the match on csize: the value of one field, None for the arm that fails
decode_value(raw_bytes, csize, endianness) ==
    CASE csize = 1 -> Some(<<raw_bytes[1]>>)
      [] csize \in {2, 4, 8} ->
            Some(IF endianness = "big" THEN from_be_bytes(raw_bytes)
                 ELSE from_le_bytes(raw_bytes))
      [] csize = 3 ->
            Some(IF endianness = "big"
                 THEN shift_or_24(raw_bytes[1], raw_bytes[2], raw_bytes[3])
                 ELSE shift_or_24(raw_bytes[3], raw_bytes[2], raw_bytes[1]))
      [] OTHER -> None

\* an insert that keeps the entry a name already has
insert_keep_first(map, name, value) ==
    [n \in DOMAIN map \cup {name} |-> IF n \in DOMAIN map THEN map[n] ELSE value]

\* HashMap::insert
insert(map, name, value) ==
    [n \in DOMAIN map \cup {name} |-> IF n = name THEN value ELSE map[n]]

\* HashMap::with_capacity: the empty mapping
EmptyMap == [n \in {} |-> Wide(0)]

\* the for loop of parse, from the fields still to parse
RECURSIVE parse_fields(_, _, _, _)
parse_fields(remaining_data, structure, endianness, parsed_structure) ==
    IF structure = <<>> THEN Ok(parsed_structure)
    ELSE LET name == Head(structure)[1]
             ctype == Head(structure)[2]
             csize == type_to_size(ctype)
         IN  IF csize = None THEN Err
             ELSE IF csize[1] > Len(remaining_data) THEN Err
             ELSE LET raw_bytes == SubSeq(remaining_data, 1, csize[1])
                      value == decode_value(raw_bytes, csize[1], endianness)
                  IN  IF value = None THEN Err
                      ELSE parse_fields(SubSeq(remaining_data, csize[1] + 1,
                                               Len(remaining_data)),
                                        Tail(structure), endianness,
                                        insert(parsed_structure, name, Pad8(value[1])))

parse(data, structure, endianness) == parse_fields(data, structure, endianness, EmptyMap)

RECURSIVE size(_)
size(structure) ==
    IF structure = <<>> THEN 0
    ELSE LET member_size == type_to_size(Head(structure)[2])
         IN  (IF member_size = None THEN 0 ELSE member_size[1]) + size(Tail(structure))

\* the structures parsed: up to MaxFields fields, names that may repeat, the
\* five supported tags and two unsupported ones
MaxFields == 3
FieldNames == {"magic", "size"}
FieldTags == {"u8", "u16", "u24", "u32", "u64", "u128", "U32"}
Structures == UNION {[1..n -> FieldNames \X FieldTags] : n \in 0..MaxFields}
Endiannesses == {"big", "little", "BIG"}

\* the integer field i (from 1) of a template holds, as w digits
FieldValue(pattern, i, w) ==
    [k \in 1..w |-> CASE pattern = "ones" -> 255
                      [] pattern = "low" -> IF k = w THEN i ELSE 0
                      [] OTHER -> (37 * (8 * i + k) + 129) % 256]

\* the bytes of an integer of w digits in a byte order
Encode(value, endianness) == IF endianness = "big" THEN value ELSE to_le_bytes(value)

\* the width a template gives a field: that of its tag, nothing for other tags
TagWidth(ctype) ==
    IF ctype = "u8" THEN 1 ELSE IF ctype = "u16" THEN 2 ELSE IF ctype = "u24" THEN 3
    ELSE IF ctype = "u32" THEN 4 ELSE IF ctype = "u64" THEN 8 ELSE 0

\* the fields of a template encoded one after the other, without padding
EncodeStructure(structure, pattern, endianness) ==
    Flatten([i \in 1..Len(structure) |->
                Encode(FieldValue(pattern, i, TagWidth(structure[i][2])), endianness)])

ParseTemplates ==
    [structure : Structures, endianness : Endiannesses,
     pattern : {"mixed", "ones"}, extra : {-1, 0, 2}]

ParseData(t) ==
    LET bytes == EncodeStructure(t.structure, t.pattern, t.endianness)
    IN  Fit(bytes, IF Len(bytes) + t.extra < 0 THEN 0 ELSE Len(bytes) + t.extra)

CallParse ==
    /\ call.fn = "none"
    /\ \E t \in ParseTemplates :
        /\ call' = [fn |-> "parse", t |-> t, data |-> ParseData(t)]
        /\ ret' = parse(ParseData(t), t.structure, t.endianness)
        /\ UNCHANGED xvars

CallSize ==
    /\ call.fn = "none"
    /\ \E st \in Structures :
        /\ call' = [fn |-> "size", t |-> st]
        /\ ret' = size(st)
        /\ UNCHANGED xvars

----------------------------------------------------------------------------
(* extractors/arcadyan.rs; lzma_decompress (extractors/lzma.rs) is not among
   the sources.

   A buffer that may be as long as MAX_DATA_SIZE is kept as its first bytes,
   head, and the number tail_len of bytes behind them; head holds at least
   the first HeadLen bytes of every buffer that long.  The de-obfuscator
   copies the bytes behind the header as they are. *)

LZMA_DATA_OFFSET == 4
MIN_DATA_SIZE == 256
MAX_DATA_SIZE == 1769472

ARCADYAN_BLOCK_SIZE == 32
P1_START == 0
P1_END == 4
BLOCK1_START == P1_END
BLOCK1_END == BLOCK1_START + ARCADYAN_BLOCK_SIZE
P2_START == BLOCK1_END
P2_END == 104
BLOCK2_START == P2_END
BLOCK2_END == BLOCK2_START + ARCADYAN_BLOCK_SIZE
P3_START == BLOCK2_END

BufLen(buf) == Len(buf.head) + buf.tail_len

\* &buf[from..]
BufFrom(buf, from) ==
    [head |-> Slice(buf.head, from, Len(buf.head)), tail_len |-> buf.tail_len]

\* u8::rotate_left(4)
rotate_left_4(byte) == ((byte % 16) * 16) + (byte \div 16)

\* the blocks swapped, the pairs of block 1 left as they are
arcadyan_deobfuscator_swap_only(obfuscated_data) ==
    LET h == obfuscated_data.head
    IN  [head |-> Slice(h, P1_START, P1_END) \o Slice(h, BLOCK2_START, BLOCK2_END)
                    \o Slice(h, P2_START, P2_END) \o Slice(h, BLOCK1_START, BLOCK1_END)
                    \o Slice(h, P3_START, Len(h)),
         tail_len |-> obfuscated_data.tail_len]

arcadyan_deobfuscator(obfuscated_data) ==
    LET h == obfuscated_data.head
        p1 == Slice(h, P1_START, P1_END)
        b1 == Slice(h, BLOCK1_START, BLOCK1_END)
        p2 == Slice(h, P2_START, P2_END)
        b2 == Slice(h, BLOCK2_START, BLOCK2_END)
        p3 == Slice(h, P3_START, Len(h))
        swapped == p1 \o b2 \o p2 \o b1 \o p3
        \* chunks_exact_mut(2) over block 1: position i (from 1) is chunk[0]
        \* when it is odd within the block, chunk[1] when it is even
        in_block1(i) == i > BLOCK1_START /\ i <= BLOCK1_END
        is_chunk_0(i) == (i - BLOCK1_START) % 2 = 1
    IN  [head |-> [i \in 1..Len(swapped) |->
                      IF ~in_block1(i) THEN swapped[i]
                      ELSE IF is_chunk_0(i) THEN rotate_left_4(swapped[i + 1])
                      ELSE rotate_left_4(swapped[i - 1])],
         tail_len |-> obfuscated_data.tail_len]

\* the bytes kept explicitly of a long buffer
HeadLen == 140

ArcadyanAvailable ==
    {0, 1, 135, 136, 255, 256, 257, 258, MAX_DATA_SIZE - 1, MAX_DATA_SIZE, MAX_DATA_SIZE + 1}

\* offset bytes, then the available data: bytes that differ from each other
ArcadyanSources ==
    {[offset |-> off,
      file_data |-> [head |-> [i \in 1..off |-> 17]
                               \o [i \in 1..Min(n, HeadLen) |-> (Ramp(i - 1) + shift) % 256],
                     tail_len |-> n - Min(n, HeadLen)]] :
        off \in {0, 3}, n \in ArcadyanAvailable, shift \in {0, 64}}
    \cup {[offset |-> 3, file_data |-> [head |-> <<17, 17>>, tail_len |-> 0]]}

\* extract_obfuscated_lzma up to the call of lzma_decompress.  With an offset
\* beyond the data the subtraction overflows: a panic where overflow is
\* checked, else a value above MAX_DATA_SIZE and the default result
ArcadyanCall ==
    /\ pc = "idle"
    /\ \E input \in ArcadyanSources, r \in BOOLEAN, overflow_checks \in BOOLEAN :
        LET underflow == input.offset > BufLen(input.file_data)
            available_data == BufLen(input.file_data) - input.offset
            attempt == /\ ~underflow
                       /\ available_data <= MAX_DATA_SIZE
                       /\ available_data > MIN_DATA_SIZE
        IN  /\ underflow \/ overflow_checks
            /\ xfn' = "extract_obfuscated_lzma"
            /\ src' = input
            /\ root' = r
            /\ ncalls' = ncalls + 1
            /\ fileBefore' = file
            /\ nwrites' = 0
            /\ wfail' = FALSE
            /\ result' = DefaultResult
            /\ handed' = IF attempt
                          THEN Some([data |-> arcadyan_deobfuscator(
                                                 BufFrom(input.file_data, input.offset)),
                                     offset |-> LZMA_DATA_OFFSET, root |-> r])
                          ELSE None
            /\ pc' = IF underflow /\ overflow_checks THEN "panicked"
                      ELSE IF attempt THEN "lzma" ELSE "done"
            /\ UNCHANGED <<file, idx, rem, dst_size, prev, call, ret, jvars>>

\* lzma_decompress fails: the data do not decompress, or the write fails
ArcadyanLzmaFail ==
    /\ pc = "lzma" /\ xfn = "extract_obfuscated_lzma"
    /\ \E write_failed \in {FALSE, root} :
        /\ nwrites' = IF write_failed THEN nwrites + 1 ELSE nwrites
        /\ wfail' = write_failed
    /\ result' = DefaultResult
    /\ pc' = "done"
    /\ UNCHANGED <<xfn, src, root, file, fileBefore, idx, rem, dst_size, prev, ncalls,
                   call, ret, handed, jvars>>

\* lzma_decompress succeeds, writing beneath the root when there is one
ArcadyanLzmaOk ==
    /\ pc = "lzma" /\ xfn = "extract_obfuscated_lzma"
    /\ \E consumed \in {14, BufLen(handed[1].data) - LZMA_DATA_OFFSET} :
        result' = [success |-> TRUE, size |-> Some(consumed)]
    /\ IF root
       THEN file' = create_file(file, <<>>) /\ nwrites' = nwrites + 1
       ELSE UNCHANGED <<file, nwrites>>
    /\ pc' = "done"
    /\ UNCHANGED <<xfn, src, root, fileBefore, idx, rem, dst_size, wfail, prev, ncalls,
                   call, ret, handed, jvars>>

----------------------------------------------------------------------------
(* json.rs: JsonLogger.  The log is kept as the pieces written to it. *)

STDOUT == "-"
JSON_LIST_START == "[\n"
JSON_LIST_END == "\n]\n"
JSON_LIST_SEP == ",\n"

\* JsonLogger::new
JsonLogger_new(log_file) == [json_file |-> log_file, json_file_initialized |-> FALSE]

\* write_json: nothing without a log file; stdout takes the data; the file
\* takes them unless opening, seeking or writing fails (io_ok is FALSE)
write_json(self, data, io_ok, log) ==
    IF self.json_file = None THEN log
    ELSE IF self.json_file[1] = STDOUT
    THEN [req |-> Append(log.req, data), out |-> Append(log.out, data)]
    ELSE [req |-> Append(log.req, data),
          out |-> IF io_ok THEN Append(log.out, data) ELSE log.out]

\* the separator written before the first entry, the list start before the others
list_opening_swapped(self) ==
    IF ~self.json_file_initialized THEN JSON_LIST_SEP ELSE JSON_LIST_START

\* what log writes before an entry
list_opening(self) ==
    IF ~self.json_file_initialized THEN JSON_LIST_START ELSE JSON_LIST_SEP

\* calls made on one logger in a behaviour
MaxLogCalls == 4

\* what serde_json::to_string_pretty returns for the results logged
JsonTexts == {"{a}", "{b}"}

LogFiles == {None, Some(STDOUT), Some("log.json")}

JsonNew ==
    /\ logger = None
    /\ \E log_file \in LogFiles : logger' = Some(JsonLogger_new(log_file))
    /\ UNCHANGED <<call, ret, evars, jreq, jout, jcalls>>

\* log, the results serializing to json
JsonLog ==
    /\ logger # None
    /\ Len(jcalls) < MaxLogCalls
    /\ \E json \in JsonTexts, io_ok_1 \in BOOLEAN, io_ok_2 \in BOOLEAN :
        LET self == logger[1]
            opened == write_json(self, list_opening(self), io_ok_1,
                                 [req |-> jreq, out |-> jout])
            written == write_json(self, json, io_ok_2, opened)
        IN  /\ logger' = Some([self EXCEPT !.json_file_initialized = TRUE])
            /\ jreq' = written.req
            /\ jout' = written.out
            /\ jcalls' = Append(jcalls, [op |-> "log", json |-> Some(json)])
    /\ UNCHANGED <<call, ret, evars>>

\* log, the results failing to serialize: the error is reported, nothing else
JsonLogSerializeErr ==
    /\ logger # None
    /\ Len(jcalls) < MaxLogCalls
    /\ jcalls' = Append(jcalls, [op |-> "log", json |-> None])
    /\ UNCHANGED <<call, ret, evars, logger, jreq, jout>>

JsonClose ==
    /\ logger # None
    /\ Len(jcalls) < MaxLogCalls
    /\ \E io_ok \in BOOLEAN :
        LET written == write_json(logger[1], JSON_LIST_END, io_ok,
                                  [req |-> jreq, out |-> jout])
        IN  /\ jreq' = written.req
            /\ jout' = written.out
    /\ jcalls' = Append(jcalls, [op |-> "close", json |-> None])
    /\ UNCHANGED <<call, ret, evars, logger>>

----------------------------------------------------------------------------

Init ==
    /\ call = [fn |-> "none"]
    /\ ret = None
    /\ xfn = "none"
    /\ src = None
    /\ root = FALSE
    /\ pc = "idle"
    /\ file = None
    /\ fileBefore = None
    /\ idx = 0
    /\ rem = 0
    /\ dst_size = 0
    /\ nwrites = 0
    /\ wfail = FALSE
    /\ result = None
    /\ prev = None
    /\ ncalls = 0
    /\ handed = None
    /\ logger = None
    /\ jreq = <<>>
    /\ jout = <<>>
    /\ jcalls = <<>>

NextOffset == CallIsOffsetSafe

SpecOffset == Init /\ [][NextOffset]_vars

NextHeaders ==
    \/ CallParseLzmaHeader
    \/ CallParseZImageHeader
    \/ CallParseArm64Header
    \/ CallParseBmpFileHeader
    \/ CallGetDibHeaderSize
    \/ CallParseAutelHeader
    \/ CallParseAndroidBootimgHeader

SpecHeaders == Init /\ [][NextHeaders]_vars

NextParse ==
    \/ CallParse
    \/ CallSize

SpecParse == Init /\ [][NextParse]_vars

NextExtract ==
    \/ AutelCall
    \/ AutelDecodeProbe
    \/ AutelAppendOk
    \/ AutelAppendFail
    \/ AutelFinish
    \/ LzfseCall
    \/ LzfseWalk
    \/ LzfseDecode
    \/ LzfseCreateOk
    \/ LzfseCreateFail

SpecExtract == Init /\ [][NextExtract]_vars

NextArcadyan ==
    \/ ArcadyanCall
    \/ ArcadyanLzmaFail
    \/ ArcadyanLzmaOk

SpecArcadyan == Init /\ [][NextArcadyan]_vars

NextJson ==
    \/ JsonNew
    \/ JsonLog
    \/ JsonLogSerializeErr
    \/ JsonClose

SpecJson == Init /\ [][NextJson]_vars

Next == NextOffset \/ NextHeaders \/ NextParse \/ NextExtract \/ NextArcadyan \/ NextJson

Spec == Init /\ [][Next]_vars

----------------------------------------------------------------------------
(* C1: is_offset_safe returns true exactly when next < available and the
   previous offset is absent or below next; with available = 4 the five
   documented cases come out safe, unsafe, safe, unsafe, unsafe. *)
C1_OffsetSafeIff ==
    /\ call.fn = "is_offset_safe" =>
        (ret <=> (/\ call.next < call.available
                  /\ (call.last = None \/ call.last[1] < call.next)))
    /\ is_offset_safe(4, 0, None)
    /\ ~is_offset_safe(4, 4, None)
    /\ is_offset_safe(4, 2, Some(1))
    /\ ~is_offset_safe(4, 2, Some(2))
    /\ ~is_offset_safe(4, 1, Some(2))

C1_Witness ==
    /\ call.fn = "is_offset_safe"
    /\ call.available = 4 /\ call.next = 2 /\ call.last = Some(1)
    /\ ret = TRUE

----------------------------------------------------------------------------
\* The sanity range of the LZMA decompressed size, read off the digits: the
\* all-ones sentinel, or no bit above bit 31 and some bit above bit 7.
LzmaSizeAccepted(d) ==
    \/ \A i \in 1..8 : d[i] = 255
    \/ /\ \A i \in 1..4 : d[i] = 0
       /\ \E i \in 5..7 : d[i] # 0

(* C5 (amended): the LZMA header layout is 14 bytes (1 + 4 + 8 + 1):
   parse_lzma_header rejects every buffer shorter than 14 bytes, and accepts
   every buffer of 14 bytes or more whose byte at offset 13 is 0 and whose
   decompressed-size field passes the sanity check. *)
C5_LzmaLayout14 ==
    call.fn = "parse_lzma_header" =>
        /\ (call.len < 14 => ret = Err)
        /\ (/\ call.len >= 14
            /\ call.t.null_byte = 0
            /\ LzmaSizeAccepted(call.t.decompressed_size)) => ret.kind = "ok"

C5_Witness ==
    /\ call.fn = "parse_lzma_header"
    /\ call.len = 14
    /\ call.t.null_byte = 0
    /\ call.t.decompressed_size = Wide(256)
    /\ ret.kind = "ok"

(* C5 as claimed: a buffer of exactly 13 bytes whose last byte is 0 and whose
   8-byte decompressed-size field (offsets 5..12) passes the sanity check is
   accepted. *)
C5_Layout13AsClaimed ==
    (/\ call.fn = "parse_lzma_header"
     /\ call.len = 13
     /\ call.data[13] = 0
     /\ LzmaSizeAccepted(from_le_bytes(Slice(call.data, 5, 13)))) => ret.kind = "ok"

(* C6: on a buffer holding the whole header, parse_lzma_header succeeds
   exactly when the trailing byte is 0 and the decompressed size is the
   all-ones sentinel or lies in [256, 0xFFFFFFFF]; on success the three
   fields are returned verbatim.  Size 255 and sizes in
   [0x100000000, 0xFFFFFFFFFFFFFFFE] are rejected. *)
C6_LzmaAcceptIff ==
    (call.fn = "parse_lzma_header" /\ call.len >= LZMAHeaderBytesSize) =>
        /\ ret.kind = "ok" <=> (/\ call.t.null_byte = 0
                                /\ LzmaSizeAccepted(call.t.decompressed_size))
        /\ ret.kind = "ok" =>
            /\ ret.v.properties = call.t.properties
            /\ ret.v.dictionary_size = call.t.dictionary_size
            /\ ret.v.decompressed_size = call.t.decompressed_size
        /\ call.t.null_byte # 0 => ret = Err
        /\ call.t.decompressed_size = Wide(255) => ret = Err
        /\ (/\ \E i \in 1..4 : call.t.decompressed_size[i] # 0
            /\ call.t.decompressed_size # LZMA_STREAM_SIZE) => ret = Err

C6_Witness ==
    /\ call.fn = "parse_lzma_header"
    /\ call.len = 15
    /\ call.t.decompressed_size = LZMA_STREAM_SIZE
    /\ call.t.dictionary_size = <<255, 1, 2, 3>>
    /\ ret.kind = "ok"

HeaderValidators ==
    {"parse_lzma_header", "parse_bmp_file_header", "get_dib_header_size",
     "parse_autel_header", "parse_android_bootimg_header",
     "parse_linux_arm_zimage_header", "parse_linux_arm64_boot_image_header"}

(* C2: every header validator, called on a buffer of any length (0 and
   lengths shorter than what it reads included), returns a header or the
   parse failure; it never panics. *)
C2_ValidatorsNeverPanic ==
    call.fn \in HeaderValidators => ret.kind \in {"ok", "err"}

(* C7: on a buffer of 32 bytes or more, parse_linux_arm_zimage_header
   succeeds exactly when the first eight little-endian words are identical
   and equal 0xE1A00000 (endianness "little") or 0x0000A0E1 ("big"). *)
C7_ZImageAcceptIff ==
    (call.fn = "parse_linux_arm_zimage_header" /\ call.len >= 32) =>
        LET same == \A i \in 1..8 : call.t[i] = call.t[1]
        IN  /\ ret.kind = "ok" <=> (same /\ call.t[1] \in {NOP_LE, NOP_BE})
            /\ (same /\ call.t[1] = NOP_LE) => ret = Ok([endianness |-> "little"])
            /\ (same /\ call.t[1] = NOP_BE) => ret = Ok([endianness |-> "big"])

(* C8: on a buffer of 64 bytes or more, parse_linux_arm64_boot_image_header
   succeeds exactly when the three reserved fields are 0, the two bytes at
   pe_offset lie inside the buffer and are "PE", and no bit of flags above
   the low four is set; on success endianness follows bit 0 of flags,
   image_size is the field verbatim and header_size is 64. *)
C8_Arm64AcceptIff ==
    (call.fn = "parse_linux_arm64_boot_image_header" /\ call.len >= 64) =>
        LET t == call.t
            p == AsIndex(t.pe_offset)
            accepted ==
                /\ t.reserved1 = Wide(0) /\ t.reserved2 = Wide(0) /\ t.reserved3 = Wide(0)
                /\ p + 2 <= Len(call.data)
                /\ call.data[p + 1] = 80 /\ call.data[p + 2] = 69
                /\ \A i \in 1..7 : t.flags[i] = 0
                /\ t.flags[8] < 16
        IN  /\ ret.kind = "ok" <=> accepted
            /\ ret.kind = "ok" =>
                /\ ret.v.endianness = IF t.flags[8] % 2 = 1 THEN "big" ELSE "little"
                /\ ret.v.image_size = t.image_size
                /\ ret.v.header_size = 64

(* C3: a call of an internal extractor that starts with no output file
   beneath the root and returns success = false leaves no output file,
   whatever sandbox writes succeeded or failed during the call. *)
C3_FailureLeavesNoFile ==
    (pc = "done" /\ fileBefore = None /\ ~result.success) => file = None

(* C4: when lzfse_decompress returns success, the size it reports is the
   number of source bytes the block-chain walk consumed: the sum over the
   walked blocks of header size + data size. *)
C4_LzfseSizeIsConsumed ==
    (pc = "done" /\ xfn = "lzfse_decompress" /\ result.success) =>
        /\ result.size = Some(src_size)
        /\ result.size = Some(ChainSize(src.chain, idx))

(* C9: without an output root an extractor makes no sandbox write and leaves
   the output file as it was; its result equals the result of the same call
   with an output root on which every write succeeds, and the result of the
   same call made again. *)
C9_ProbeMode ==
    /\ (xfn # "none" /\ ~root) => (nwrites = 0 /\ file = fileBefore)
    /\ (/\ pc = "done"
        /\ prev # None
        /\ ~root \/ ~prev[1].root
        /\ ~wfail /\ ~prev[1].wfail) => result = prev[1].result

C9_Witness ==
    /\ pc = "done"
    /\ prev # None
    /\ ~prev[1].root /\ root
    /\ ~wfail /\ nwrites > 0
    /\ result.success
    /\ result = prev[1].result

\* byte j (from 0) of the decoded data: raw is the source from the start offset
AutelDecoded(raw, j) ==
    BitXor((raw[32 + j + 1] + ADDS[(j % 256) + 1]) % 256, XORS[(j % 256) + 1], 8)

AutelFileAsClaimed ==
    LET raw == SubSeq(src.file_data, src.offset + 1, Len(src.file_data))
    IN  /\ file # None
        /\ Len(file[1]) = src.data_size
        /\ \A j \in 0..(src.data_size - 1) : file[1][j + 1] = AutelDecoded(raw, j)
        /\ src.payload = "zeros" =>
            \A j \in 0..(src.data_size - 1) :
                file[1][j + 1] = BitXor(ADDS[(j % 256) + 1], XORS[(j % 256) + 1], 8)

AutelWroteAfresh ==
    /\ pc = "done" /\ xfn = "autel_deobfuscate"
    /\ root /\ fileBefore = None
    /\ result.success

(* C10 (amended): after a successful autel_deobfuscate with an output root
   in which "autel.decoded" did not exist, when data_size > 0 the file holds
   exactly data_size bytes, byte j being
   ((raw[0x20 + j] + ADDS[j mod 256]) mod 256) XOR XORS[j mod 256]
   (ADDS[i] XOR XORS[i] for an all-zero block); when data_size = 0 no write
   is made and the file does not exist. *)
C10_AutelFileContents ==
    AutelWroteAfresh =>
        IF src.data_size > 0 THEN AutelFileAsClaimed ELSE file = None /\ nwrites = 0

C10_Witness ==
    /\ AutelWroteAfresh
    /\ src.data_size = 513
    /\ src.payload = "ramp"
    /\ src.offset = 2
    /\ Len(file[1]) = 513

(* C10 as claimed: after every such call, data_size = 0 included, the file
   holds exactly data_size bytes decoded as above. *)
C10_AsClaimed == AutelWroteAfresh => AutelFileAsClaimed

----------------------------------------------------------------------------
\* the first block of the chain flagged end-of-stream, 0 when there is none
\* among the headers the chain holds before its first non-header
RECURSIVE FirstEof(_, _)
FirstEof(chain, i) ==
    IF i > Len(chain) THEN 0
    ELSE IF ~chain[i].valid THEN 0
    ELSE IF chain[i].eof THEN i
    ELSE FirstEof(chain, i + 1)

\* blocks 1..n of the running call's source all parse: the bytes of each
\* header are there at the boundary the blocks before it lead to
BlocksParse(n) ==
    \A i \in 1..n :
        /\ src.chain[i].valid
        /\ ChainSize(src.chain, i - 1) <= DataLen
        /\ DataLen - ChainSize(src.chain, i - 1) >= src.chain[i].header_size

\* the running call is lzfse_decompress on a chain whose first end-of-stream
\* block is block n, blocks 1..n all parsing
LzfseChainEndsAt(n) ==
    /\ xfn = "lzfse_decompress"
    /\ src.offset <= src.file_len
    /\ n >= 1
    /\ n = FirstEof(src.chain, 1)
    /\ BlocksParse(n)

(* C11: on a chain whose first end-of-stream block is block n and whose
   blocks 1..n all parse, the walk never parses a header behind block n, and
   once it is over it has parsed exactly blocks 1..n, the source length it
   computed is the sum over blocks 1..n of header_size + data_size and the
   expected uncompressed length is the sum of their uncompressed_size. *)
C11_LzfseWalkSums ==
    LET n == FirstEof(src.chain, 1)
    IN  LzfseChainEndsAt(n) =>
            /\ idx <= n
            /\ pc \in {"decode", "write", "done"} =>
                /\ idx = n
                /\ src_size = ChainSize(src.chain, n)
                /\ dst_size = ChainUncompressed(src.chain, n)

\* three blocks, the last one flagged end-of-stream, one more block behind it
C11_Witness ==
    /\ LzfseChainEndsAt(3)
    /\ Len(src.chain) = 4
    /\ pc = "decode"
    /\ idx = 3
    /\ src_size = 12
    /\ dst_size = 9

(* C12: the block-chain walk of lzfse_decompress never panics: a header that
   is not end-of-stream and reports header_size + data_size = 0, or a block
   that reaches beyond the source, ends the walk with the extractor
   returning {success: false, size: None}. *)
C12_LzfseWalkNeverPanics ==
    (xfn = "lzfse_decompress" /\ src.offset <= src.file_len) => pc # "panicked"

----------------------------------------------------------------------------
\* the tags parse supports, and the offset of field i (from 1) of a structure:
\* the widths of the fields before it added up
SupportedTags == {"u8", "u16", "u24", "u32", "u64"}

RECURSIVE WidthsBefore(_, _)
WidthsBefore(structure, i) ==
    IF i <= 1 THEN 0
    ELSE WidthsBefore(structure, i - 1) + TagWidth(structure[i - 1][2])

\* the integer whose w bytes lie at data[off .. off + w), read in a byte order
IntegerAt(data, off, w, big) ==
    Pad8([k \in 1..w |-> IF big THEN data[off + k] ELSE data[off + w + 1 - k]])

\* field i is the last field of the structure with its name
LastOccurrence(structure, i) ==
    \A j \in (i + 1)..Len(structure) : structure[j][1] # structure[i][1]

(* C13: for every width in {1, 2, 3, 4, 8} and every endianness literal, a
   successful parse decodes each field from the bytes at the offset equal to
   the sum of the widths of the fields before it, big-endian when the literal
   is exactly "big" and little-endian for every other literal; an integer
   encoded in that byte order is reproduced exactly. *)
C13_ParseRoundTrip ==
    (call.fn = "parse" /\ ret.kind = "ok") =>
        LET st == call.t.structure
            big == call.t.endianness = "big"
        IN  \A i \in 1..Len(st) :
                LastOccurrence(st, i) =>
                    LET w == TagWidth(st[i][2])
                    IN  /\ w \in {1, 2, 3, 4, 8}
                        /\ ret.v[st[i][1]] = IntegerAt(call.data, WidthsBefore(st, i), w, big)
                        /\ ret.v[st[i][1]] = Pad8(FieldValue(call.t.pattern, i, w))

\* a u24 and a u64 behind a u16, parsed under a literal that is not "big"
C13_Witness ==
    /\ call.fn = "parse"
    /\ call.t.structure = <<<<"magic", "u16">>, <<"size", "u24">>>>
    /\ call.t.endianness = "BIG"
    /\ call.t.pattern = "mixed"
    /\ ret.kind = "ok"
    /\ ret.v["size"] = Pad8(<<call.data[5], call.data[4], call.data[3]>>)
    /\ ret.v["size"] # Pad8(<<call.data[3], call.data[4], call.data[5]>>)

\* size(structure) as the claim defines it
RECURSIVE SumOfWidths(_)
SumOfWidths(structure) ==
    IF structure = <<>> THEN 0
    ELSE (IF Head(structure)[2] \in SupportedTags THEN TagWidth(Head(structure)[2]) ELSE 0)
         + SumOfWidths(Tail(structure))

(* C14: parse returns the parse failure exactly when some field's tag is not
   one of u8, u16, u24, u32, u64 or the data are shorter than
   size(structure), the sum of the widths of the recognized tags; in every
   other case it returns a mapping holding every field name.  The failure is
   one value whatever the cause. *)
C14_ParseFailsIff ==
    /\ call.fn = "size" => ret = SumOfWidths(call.t)
    /\ call.fn = "parse" =>
        LET st == call.t.structure
            failing == \/ \E i \in 1..Len(st) : st[i][2] \notin SupportedTags
                       \/ Len(call.data) < SumOfWidths(st)
        IN  /\ failing <=> ret = Err
            /\ ~failing => /\ ret.kind = "ok"
                           /\ DOMAIN ret.v = {st[i][1] : i \in 1..Len(st)}

\* enough data, the second tag unsupported
C14_Witness ==
    /\ call.fn = "parse"
    /\ call.t.structure = <<<<"magic", "u24">>, <<"size", "U32">>>>
    /\ call.t.extra = 2
    /\ Len(call.data) = 5
    /\ ret = Err

(* C19: when a structure names a field more than once and parsing succeeds,
   the mapping holds one entry for that name, the value decoded for its last
   occurrence, and every occurrence has consumed its own bytes: the last
   occurrence is read behind the bytes of the earlier ones. *)
C19_DuplicateLastWins ==
    (/\ call.fn = "parse"
     /\ ret.kind = "ok"
     /\ \E i \in 1..Len(call.t.structure) : ~LastOccurrence(call.t.structure, i)) =>
        LET st == call.t.structure
            names == {st[i][1] : i \in 1..Len(st)}
        IN  /\ DOMAIN ret.v = names
            /\ Cardinality(names) < Len(st)
            /\ Len(call.data) >= WidthsBefore(st, Len(st) + 1)
            /\ \A i \in 1..Len(st) :
                    LastOccurrence(st, i) =>
                        ret.v[st[i][1]] =
                            IntegerAt(call.data, WidthsBefore(st, i), TagWidth(st[i][2]),
                                      call.t.endianness = "big")

\* "magic" twice, as a u16 and then as a u32 behind a u8
C19_Witness ==
    /\ call.fn = "parse"
    /\ call.t.structure = <<<<"magic", "u16">>, <<"size", "u8">>, <<"magic", "u32">>>>
    /\ call.t.endianness = "little"
    /\ call.t.pattern = "mixed"
    /\ ret.kind = "ok"
    /\ DOMAIN ret.v = {"magic", "size"}
    /\ ret.v["magic"] = Pad8(FieldValue("mixed", 3, 4))
    /\ ret.v["magic"] # Pad8(FieldValue("mixed", 1, 2))

----------------------------------------------------------------------------
\* rotate-left by 4 of a byte: its two nibbles exchanged
NibblesExchanged(b) == ((b * 16) % 256) + (b \div 16)

(* C15: extract_obfuscated_lzma attempts de-obfuscation and LZMA
   decompression exactly when the available length (source length minus
   offset) is in (256, 0x1B0000], and returns the default failure result
   otherwise; the buffer handed to LZMA decompression, at offset 4, has the
   length of the input, equals it outside [4, 0x24) and [0x68, 0x88), holds
   the input's bytes [4, 0x24) at [0x68, 0x88), and for k in 0..15 holds at
   4 + 2k the input's byte 0x68 + 2k + 1 rotated left by 4 and at 4 + 2k + 1
   the input's byte 0x68 + 2k rotated left by 4. *)
C15_ArcadyanAttempt ==
    (xfn = "extract_obfuscated_lzma" /\ src.offset <= BufLen(src.file_data)) =>
        LET available == BufLen(src.file_data) - src.offset
            input == SubSeq(src.file_data.head, src.offset + 1, Len(src.file_data.head))
            out == handed[1].data
        IN  /\ handed # None <=> (available > 256 /\ available <= 1769472)
            /\ handed = None =>
                    (pc = "done" /\ result = [success |-> FALSE, size |-> None] /\ nwrites = 0)
            /\ handed # None =>
                /\ handed[1].offset = 4
                /\ BufLen(out) = available
                /\ Len(out.head) = Len(input)
                /\ \A i \in 0..(Len(input) - 1) :
                        (i \notin 4..35 /\ i \notin 104..135) => out.head[i + 1] = input[i + 1]
                /\ \A i \in 0..31 : out.head[104 + i + 1] = input[4 + i + 1]
                /\ \A k \in 0..15 :
                        /\ out.head[4 + 2 * k + 1] = NibblesExchanged(input[104 + 2 * k + 1 + 1])
                        /\ out.head[4 + 2 * k + 1 + 1] = NibblesExchanged(input[104 + 2 * k + 1])

\* the longest source attempted, from offset 3, decompressed with success
C15_Witness ==
    /\ xfn = "extract_obfuscated_lzma"
    /\ src.offset = 3
    /\ BufLen(src.file_data) = 1769472 + 3
    /\ handed # None
    /\ handed[1].data.head[5] # src.file_data.head[3 + 5]
    /\ pc = "done"
    /\ result.success

----------------------------------------------------------------------------
\* a 32-bit field (digits, most significant first) as a natural, cut at 65536:
\* every buffer of the model is shorter than that
Upto65536(v) == IF v[1] # 0 \/ v[2] # 0 THEN 65536 ELSE v[3] * 256 + v[4]

(* C16: on a buffer of at least 14 bytes parse_bmp_file_header succeeds
   exactly when the little-endian 32-bit size at byte 2 and the little-endian
   32-bit pixel-data offset at byte 10 are both above 0 and at most the
   length of the buffer, and then returns both verbatim; a buffer shorter
   than 14 bytes is rejected. *)
C16_BmpAcceptIff ==
    call.fn = "parse_bmp_file_header" =>
        LET sz == Upto65536(call.t.bf_size)
            off == Upto65536(call.t.bf_off_bits)
        IN  /\ call.len < 14 => ret = Err
            /\ call.len >= 14 =>
                /\ ret.kind = "ok" <=> (/\ 0 < sz /\ sz <= call.len
                                        /\ 0 < off /\ off <= call.len)
                /\ ret.kind = "ok" =>
                    /\ ret.v.size = Pad8(call.t.bf_size)
                    /\ ret.v.bitmap_bits_offset = Pad8(call.t.bf_off_bits)
                /\ ret.kind # "ok" => ret = Err

\* the size equal to the length of the buffer, the offset equal to 14
C16_Witness ==
    /\ call.fn = "parse_bmp_file_header"
    /\ call.len = 21
    /\ call.t.bf_size = W32(21)
    /\ call.t.bf_off_bits = W32(14)
    /\ ret = Ok([size |-> Wide(21), bitmap_bits_offset |-> Wide(14)])

\* the 16-byte field read up to its first NUL byte (all of it when it has
\* none) is the string s
ReadsUpToNul(field, s) ==
    \E k \in 0..Len(field) :
        /\ \A i \in 1..k : field[i] # 0
        /\ k = Len(field) \/ field[k + 1] = 0
        /\ SubSeq(field, 1, k) = s

\* bytes [from, from + 4) of a buffer are the little-endian encoding of n < 256
IsLe32(data, from, n) ==
    SubSeq(data, from + 1, from + 4) = <<n, 0, 0, 0>>

\* "Copyright Autel"
CopyrightAutel == <<67, 111, 112, 121, 114, 105, 103, 104, 116, 32, 65, 117, 116, 101, 108>>

(* C17: on a buffer of at least 32 bytes parse_autel_header succeeds exactly
   when the little-endian 32-bit header size at byte 12 is 0x20 and the
   16-byte copyright field, read up to its first NUL byte (or whole when it
   has none), is "Copyright Autel"; on success data_size is the field at
   byte 8 and header_size is 0x20.  The 8-byte magic does not matter. *)
C17_AutelHeaderIff ==
    (call.fn = "parse_autel_header" /\ call.len >= 32) =>
        /\ ret.kind = "ok" <=> (/\ IsLe32(call.data, 12, 32)
                                /\ ReadsUpToNul(SubSeq(call.data, 17, 32), CopyrightAutel))
        /\ ret.kind = "ok" =>
            /\ ret.v.data_size = Pad8(call.t.data_size)
            /\ ret.v.header_size = Wide(32)
        /\ ret.kind # "ok" => ret = Err
        /\ \A m \in AutelMagics :
                ret = parse_autel_header(m \o SubSeq(call.data, 9, Len(call.data)))

\* a magic of zeros, the copyright string closed by a NUL byte
C17_Witness ==
    /\ call.fn = "parse_autel_header"
    /\ call.len = 33
    /\ call.t.magic = Zeros(8)
    /\ call.t.data_size = <<255, 255, 255, 255>>
    /\ ret = Ok([data_size |-> <<0, 0, 0, 0, 255, 255, 255, 255>>, header_size |-> Wide(32)])

\* the running call is autel_deobfuscate from an offset within the source
\* whose header is invalid or whose data region is not all there
AutelMalformed ==
    LET raw == SubSeq(src.file_data, src.offset + 1, Len(src.file_data))
    IN  \/ Len(raw) < 32
        \/ ~IsLe32(raw, 12, 32)
        \/ ~ReadsUpToNul(SubSeq(raw, 17, 32), CopyrightAutel)
        \/ Len(raw) - 32 < src.data_size

(* C18: from every start offset not beyond the source autel_deobfuscate
   returns without panicking; when the header is invalid or fewer than
   data_size bytes follow the 0x20-byte header it returns
   {success: false, size: None} and makes no sandbox write. *)
C18_AutelNoPanic ==
    (xfn = "autel_deobfuscate" /\ src.offset <= Len(src.file_data)) =>
        /\ pc # "panicked"
        /\ AutelMalformed =>
            /\ pc = "done"
            /\ result = [success |-> FALSE, size |-> None]
            /\ nwrites = 0
            /\ file = fileBefore

\* a valid header, 513 bytes declared, 512 there, an output root given
C18_Witness ==
    /\ xfn = "autel_deobfuscate"
    /\ src.offset = 2
    /\ src.data_size = 513
    /\ Len(src.file_data) = 2 + 32 + 512
    /\ IsLe32(src.file_data, 2 + 12, 32)
    /\ root
    /\ pc = "done"
    /\ result = [success |-> FALSE, size |-> None]

----------------------------------------------------------------------------
\* the JSON texts of the log calls among calls that serialized, in order
RECURSIVE Serialized(_)
Serialized(calls) ==
    IF calls = <<>> THEN <<>>
    ELSE (IF Head(calls).op = "log" /\ Head(calls).json # None
          THEN <<Head(calls).json[1]>> ELSE <<>>) \o Serialized(Tail(calls))

\* the entries with ",\n" between consecutive ones
RECURSIVE Separated(_)
Separated(entries) ==
    IF Len(entries) <= 1 THEN entries
    ELSE <<Head(entries), ",\n">> \o Separated(Tail(entries))

\* the calls so far are log calls only, or log calls followed by one close
LogsOnly(calls) == \A i \in 1..Len(calls) : calls[i].op = "log"
LogsThenClose(calls) ==
    /\ Len(calls) >= 1
    /\ calls[Len(calls)].op = "close"
    /\ LogsOnly(SubSeq(calls, 1, Len(calls) - 1))

\* a step is a log call whose serialization fails
SerializeErrStep == jcalls' = Append(jcalls, [op |-> "log", json |-> None])

C20_WritesInOrder ==
    (logger # None /\ logger[1].json_file # None /\ Len(Serialized(jcalls)) >= 1) =>
        /\ LogsOnly(jcalls) => jreq = <<"[\n">> \o Separated(Serialized(jcalls))
        /\ LogsThenClose(jcalls) =>
                jreq = <<"[\n">> \o Separated(Serialized(jcalls)) \o <<"\n]\n">>
        /\ Len(jout) = Len(jreq) => jout = jreq

(* C20: for one JsonLogger with a log file, n >= 1 log calls whose results
   serialize, followed by close, write in order the list start "[\n" once
   before the first entry, the n entries with ",\n" exactly between
   consecutive ones, and the list end "\n]\n" last; a log call whose
   serialization fails writes nothing and leaves json_file_initialized as it
   was. *)
C20_JsonLogOrder ==
    /\ []C20_WritesInOrder
    /\ [][SerializeErrStep => UNCHANGED <<logger, jreq, jout>>]_vars

\* two entries around a log call that failed to serialize, then close
C20_Witness ==
    /\ logger # None
    /\ logger[1].json_file = Some("log.json")
    /\ Len(jcalls) = 4
    /\ jcalls[2].json = None
    /\ LogsThenClose(jcalls)
    /\ jout = <<"[\n", "{a}", ",\n", "{b}", "\n]\n">>

====
